---- MODULE Spec2Model ----
(***************************************************************************)
(* RsaKeyPair (src/jwk/key_pair/rsa.rs): the PKCS#8 adapter                *)
(* (detect_pkcs8, to_pkcs8) and the key-pair facade (generate, from_der,   *)
(* from_pem, from_jwk, to_jwk, ...).                                       *)
(*                                                                         *)
(* Byte buffers are sequences over 0..255.  Option<T> is a record          *)
(* [some |-> FALSE] or [some |-> TRUE, val |-> x].  The DER reader and     *)
(* builder, the Jwk object and the PEM parser live in other modules of the *)
(* crate (crate::der, crate::jwk, crate::util) and are modelled from their *)
(* contracts; OpenSSL and base64 are external collaborators.               *)
(***************************************************************************)
EXTENDS Integers, Sequences, FiniteSets, TLC

VARIABLES self, op, arg, ret, handed

vars == <<self, op, arg, ret, handed>>

\* Number of distinct RSA keys the collaborator knows.
NumKeys == 2
\* Length of the long raw buffer (forces long-form DER lengths).
LongRawLen == 130

None == [some |-> FALSE]
Some(v) == [some |-> TRUE, val |-> v]

\* static OID_RSA_ENCRYPTION
OID_RSA_ENCRYPTION == <<1, 2, 840, 113549, 1, 1, 1>>

(***************************************************************************)
(* crate::der: DerType and its tag bytes.                                  *)
(***************************************************************************)
DerTagByte(t) ==
    CASE t = "Sequence" -> 48
      [] t = "Integer" -> 2
      [] t = "ObjectIdentifier" -> 6
      [] t = "Null" -> 5
      [] t = "BitString" -> 3
      [] t = "OctetString" -> 4

RECURSIVE BeBytes(_)
BeBytes(n) == IF n < 256 THEN <<n>> ELSE BeBytes(n \div 256) \o <<n % 256>>

\* Definite-form length: short form up to 127, else 0x80|k and k big-endian bytes.
DerLength(n) == IF n <= 127 THEN <<n>> ELSE <<128 + Len(BeBytes(n))>> \o BeBytes(n)

RECURSIVE Base128Hi(_)
Base128Hi(n) == IF n < 128 THEN <<128 + n>> ELSE Base128Hi(n \div 128) \o <<128 + (n % 128)>>

\* One arc, base 128, continuation bit on all but the last byte.
Base128(n) == IF n < 128 THEN <<n>> ELSE Base128Hi(n \div 128) \o <<n % 128>>

RECURSIVE OidArcs(_, _)
OidArcs(oid, i) == IF i > Len(oid) THEN <<>> ELSE Base128(oid[i]) \o OidArcs(oid, i + 1)

OidContent(oid) == Base128(oid[1] * 40 + oid[2]) \o OidArcs(oid, 3)

RECURSIVE StripLeadingZeros(_)
StripLeadingZeros(bs) ==
    IF Len(bs) > 1 /\ bs[1] = 0 THEN StripLeadingZeros(Tail(bs)) ELSE bs

(***************************************************************************)
(* crate::der::DerBuilder: a stack of open constructed elements over a     *)
(* root buffer.                                                            *)
(***************************************************************************)
DerBuilder_new == [stack |-> <<>>, root |-> <<>>]

\* Append raw bytes to the innermost open element (or to the root).
DerBuilder_put(b, bytes) ==
    IF b.stack = <<>>
    THEN [b EXCEPT !.root = @ \o bytes]
    ELSE [b EXCEPT !.stack[Len(b.stack)].buf = @ \o bytes]

DerBuilder_tlv(b, t, content) ==
    DerBuilder_put(b, <<DerTagByte(t)>> \o DerLength(Len(content)) \o content)

begin(b, t) == [b EXCEPT !.stack = Append(@, [tag |-> t, buf |-> <<>>])]

end(b) ==
    LET top == b.stack[Len(b.stack)]
        popped == [b EXCEPT !.stack = SubSeq(@, 1, Len(@) - 1)]
    IN DerBuilder_tlv(popped, top.tag, top.buf)

append_integer_from_be_slice(b, bytes, sign) ==
    LET s == IF bytes = <<>> THEN <<0>> ELSE StripLeadingZeros(bytes)
        c == IF ~sign /\ s[1] >= 128 THEN <<0>> \o s ELSE s
    IN DerBuilder_tlv(b, "Integer", c)

append_integer_from_u8(b, v) == append_integer_from_be_slice(b, <<v>>, FALSE)

append_object_identifier(b, oid) == DerBuilder_tlv(b, "ObjectIdentifier", OidContent(oid))

append_null(b) == DerBuilder_tlv(b, "Null", <<>>)

append_bit_string_from_slice(b, bytes, unused) == DerBuilder_tlv(b, "BitString", <<unused>> \o bytes)

append_octed_string_from_slice(b, bytes) == DerBuilder_tlv(b, "OctetString", bytes)

\* build() with an element still open is a programming error (panic).
BuildPanic == <<-1>>

build(b) == IF b.stack = <<>> THEN b.root ELSE BuildPanic

(***************************************************************************)
(* crate::der::DerReader: a cursor over the buffer.  next() decodes one    *)
(* tag+length header and stops behind it; the typed accessors consume the  *)
(* declared length of the primitive just announced.                        *)
(***************************************************************************)
DerReader_from_reader(input) == [buf |-> input, pos |-> 1, type |-> "", len |-> 0]

DerTypeOfByte(x) ==
    CASE x = 48 -> "Sequence"
      [] x = 2 -> "Integer"
      [] x = 6 -> "ObjectIdentifier"
      [] x = 5 -> "Null"
      [] x = 3 -> "BitString"
      [] x = 4 -> "OctetString"
      [] OTHER -> "Unsupported"

RECURSIVE BeValue(_)
BeValue(bs) == IF bs = <<>> THEN 0 ELSE BeValue(SubSeq(bs, 1, Len(bs) - 1)) * 256 + bs[Len(bs)]

\* res is "Ok" (type announced), "End" (Ok(None): no more input) or "Err".
DerReader_next(r) ==
    LET n == Len(r.buf)
        p == r.pos
    IN IF p > n THEN [res |-> "End", type |-> "", r |-> r]
       ELSE IF DerTypeOfByte(r.buf[p]) = "Unsupported" \/ p + 1 > n
            THEN [res |-> "Err", type |-> "", r |-> r]
       ELSE LET l == r.buf[p + 1]
                k == l - 128
            IN IF l < 128
               THEN [res |-> "Ok", type |-> DerTypeOfByte(r.buf[p]),
                     r |-> [r EXCEPT !.pos = p + 2, !.type = DerTypeOfByte(r.buf[p]), !.len = l]]
               ELSE IF k = 0 \/ p + 1 + k > n
                    THEN [res |-> "Err", type |-> "", r |-> r]
               ELSE [res |-> "Ok", type |-> DerTypeOfByte(r.buf[p]),
                     r |-> [r EXCEPT !.pos = p + 2 + k, !.type = DerTypeOfByte(r.buf[p]),
                                     !.len = BeValue(SubSeq(r.buf, p + 2, p + 1 + k))]]

\* The announced primitive's content, or Err when the buffer is too short.
DerReader_contents(r) ==
    IF r.pos + r.len - 1 > Len(r.buf)
    THEN [res |-> "Err"]
    ELSE [res |-> "Ok", bytes |-> SubSeq(r.buf, r.pos, r.pos + r.len - 1),
          r |-> [r EXCEPT !.pos = r.pos + r.len]]

\* One byte, or a zero sign-extension byte and one byte.
to_u8(r) ==
    LET c == DerReader_contents(r)
    IN IF r.type # "Integer" \/ c.res = "Err" THEN [res |-> "Err"]
       ELSE IF Len(c.bytes) = 1 THEN [res |-> "Ok", val |-> c.bytes[1], r |-> c.r]
       ELSE IF Len(c.bytes) = 2 /\ c.bytes[1] = 0 THEN [res |-> "Ok", val |-> c.bytes[2], r |-> c.r]
       ELSE [res |-> "Err"]

\* Base-128 arcs of bs[i..], acc the value of the unfinished arc; <<-1>> marks
\* a continuation byte at the end of the content.
RECURSIVE DecodeArcs(_, _, _, _)
DecodeArcs(bs, i, acc, open) ==
    IF i > Len(bs) THEN (IF open THEN <<-1>> ELSE <<>>)
    ELSE IF bs[i] >= 128 THEN DecodeArcs(bs, i + 1, acc * 128 + (bs[i] - 128), TRUE)
    ELSE <<acc * 128 + bs[i]>> \o DecodeArcs(bs, i + 1, 0, FALSE)

to_object_identifier(r) ==
    LET c == DerReader_contents(r)
    IN IF r.type # "ObjectIdentifier" \/ c.res = "Err" THEN [res |-> "Err"]
       ELSE LET arcs == DecodeArcs(c.bytes, 1, 0, FALSE)
            IN IF arcs = <<>> \/ arcs[Len(arcs)] = -1 THEN [res |-> "Err"]
               ELSE LET a0 == IF arcs[1] < 40 THEN 0 ELSE IF arcs[1] < 80 THEN 1 ELSE 2
                    IN [res |-> "Ok", val |-> <<a0, arcs[1] - 40 * a0>> \o Tail(arcs), r |-> c.r]

(***************************************************************************)
(* RsaKeyPair::to_pkcs8 and RsaKeyPair::detect_pkcs8.                      *)
(***************************************************************************)
\* to_pkcs8 with the key element's branches exchanged.
to_pkcs8_builder_swapped(input, is_public) ==
    LET b1 == begin(DerBuilder_new, "Sequence")
        b2 == IF ~is_public THEN append_integer_from_u8(b1, 0) ELSE b1
        b6 == end(append_null(append_object_identifier(begin(b2, "Sequence"), OID_RSA_ENCRYPTION)))
        b7 == IF ~is_public
              THEN append_bit_string_from_slice(b6, input, 0)
              ELSE append_octed_string_from_slice(b6, input)
    IN end(b7)

\* The builder as to_pkcs8 leaves it just before build().
to_pkcs8_builder(input, is_public) ==
    LET b0 == DerBuilder_new
        b1 == begin(b0, "Sequence")
        b2 == IF ~is_public THEN append_integer_from_u8(b1, 0) ELSE b1
        b3 == begin(b2, "Sequence")
        b4 == append_object_identifier(b3, OID_RSA_ENCRYPTION)
        b5 == append_null(b4)
        b6 == end(b5)
        b7 == IF is_public
              THEN append_bit_string_from_slice(b6, input, 0)
              ELSE append_octed_string_from_slice(b6, input)
    IN end(b7)

to_pkcs8(input, is_public) == build(to_pkcs8_builder(input, is_public))

\* detect_version without the comparison of the version with 0.
detect_version_unchecked(r, is_public) ==
    IF is_public THEN [res |-> "Ok", r |-> r]
    ELSE LET s == DerReader_next(r)
         IN IF ~(s.res = "Ok" /\ s.type = "Integer") THEN [res |-> "Err"]
            ELSE LET v == to_u8(s.r)
                 IN IF v.res # "Ok" THEN [res |-> "Err"] ELSE [res |-> "Ok", r |-> v.r]

\* The reader behind the version field, or Err (detect_pkcs8 lines 279-292).
detect_version(r, is_public) ==
    IF is_public THEN [res |-> "Ok", r |-> r]
    ELSE LET s == DerReader_next(r)
         IN IF ~(s.res = "Ok" /\ s.type = "Integer") THEN [res |-> "Err"]
            ELSE LET v == to_u8(s.r)
                 IN IF v.res # "Ok" THEN [res |-> "Err"]
                    ELSE IF v.val # 0 THEN [res |-> "Err"]
                    ELSE [res |-> "Ok", r |-> v.r]

\* detect_algorithm without the comparison of the OID with rsaEncryption.
detect_algorithm_any_oid(r) ==
    LET s1 == DerReader_next(r)
    IN IF ~(s1.res = "Ok" /\ s1.type = "Sequence") THEN None
       ELSE LET s2 == DerReader_next(s1.r)
            IN IF ~(s2.res = "Ok" /\ s2.type = "ObjectIdentifier") THEN None
               ELSE LET o == to_object_identifier(s2.r)
                    IN IF o.res # "Ok" THEN None
                       ELSE LET s3 == DerReader_next(o.r)
                            IN IF ~(s3.res = "Ok" /\ s3.type = "Null") THEN None
                               ELSE Some("unit")

\* The algorithm identifier (detect_pkcs8 lines 294-316).
detect_algorithm(r) ==
    LET s1 == DerReader_next(r)
    IN IF ~(s1.res = "Ok" /\ s1.type = "Sequence") THEN None
       ELSE LET s2 == DerReader_next(s1.r)
            IN IF ~(s2.res = "Ok" /\ s2.type = "ObjectIdentifier") THEN None
               ELSE LET o == to_object_identifier(s2.r)
                    IN IF o.res # "Ok" THEN None
                       ELSE IF o.val # OID_RSA_ENCRYPTION THEN None
                       ELSE LET s3 == DerReader_next(o.r)
                            IN IF ~(s3.res = "Ok" /\ s3.type = "Null") THEN None
                               ELSE Some("unit")

detect_pkcs8(input, is_public) ==
    LET s0 == DerReader_next(DerReader_from_reader(input))
    IN IF ~(s0.res = "Ok" /\ s0.type = "Sequence") THEN None
       ELSE LET v == detect_version(s0.r, is_public)
            IN IF v.res # "Ok" THEN None ELSE detect_algorithm(v.r)

(***************************************************************************)
(* The crypto collaborator (OpenSSL): a fixed family of RSA private keys,  *)
(* each component an unsigned big-endian byte string without leading       *)
(* zeros, and the standard encodings it emits and accepts.                 *)
(***************************************************************************)
JwkNames == <<"n", "e", "d", "p", "q", "dp", "dq", "qi">>

Key(i) ==
    [n |-> IF i % 2 = 1 THEN <<192 + i, 53>> ELSE <<64 + i>>,
     e |-> <<1, 0, 1>>,
     d |-> <<128 + i>>,
     p |-> <<10 + i>>,
     q |-> <<1, 20 + i>>,
     dp |-> <<30 + i>>,
     dq |-> <<255, i>>,
     qi |-> <<200, i, 7>>]

Keys == {Key(i) : i \in 1..NumKeys}

\* Rsa::size(): the modulus length in bytes.
Rsa_size(k) == Len(k.n)

Asn1Length(n) ==
    IF n < 128 THEN <<n>>
    ELSE IF n < 256 THEN <<129, n>>
    ELSE <<130, n \div 256, n % 256>>

Asn1(tag, content) == <<tag>> \o Asn1Length(Len(content)) \o content

Asn1Int(bs) == Asn1(2, IF bs[1] >= 128 THEN <<0>> \o bs ELSE bs)

\* AlgorithmIdentifier { rsaEncryption, NULL }
Asn1RsaAlgorithm == <<48, 13, 6, 9, 42, 134, 72, 134, 247, 13, 1, 1, 1, 5, 0>>

\* PKCS#8 PrivateKeyInfo around raw RSAPrivateKey bytes.
PrivateKeyInfo(raw) == Asn1(48, <<2, 1, 0>> \o Asn1RsaAlgorithm \o Asn1(4, raw))

\* X.509 SubjectPublicKeyInfo around raw RSAPublicKey bytes.
SubjectPublicKeyInfo(raw) == Asn1(48, Asn1RsaAlgorithm \o Asn1(3, <<0>> \o raw))

\* Rsa::private_key_to_der(): PKCS#1 RSAPrivateKey.
Rsa_private_key_to_der(k) ==
    Asn1(48, Asn1Int(<<0>>) \o Asn1Int(k.n) \o Asn1Int(k.e) \o Asn1Int(k.d) \o Asn1Int(k.p)
             \o Asn1Int(k.q) \o Asn1Int(k.dp) \o Asn1Int(k.dq) \o Asn1Int(k.qi))

\* Rsa::public_key_to_der_pkcs1(): PKCS#1 RSAPublicKey.
Rsa_public_key_to_der_pkcs1(k) == Asn1(48, Asn1Int(k.n) \o Asn1Int(k.e))

\* PKey::public_key_to_der(): X.509 SubjectPublicKeyInfo.
PKey_public_key_to_der(k) == SubjectPublicKeyInfo(Rsa_public_key_to_der_pkcs1(k))

\* PKey::private_key_from_der(): accepts the PKCS#8 (or bare PKCS#1) encoding
\* of a key, rejects everything else.
PKey_private_key_from_der(bytes) ==
    LET hit == {k \in Keys : \/ bytes = PrivateKeyInfo(Rsa_private_key_to_der(k))
                             \/ bytes = Rsa_private_key_to_der(k)}
    IN IF hit = {} THEN [ok |-> FALSE, cause |-> "openssl::ErrorStack"]
       ELSE [ok |-> TRUE, val |-> CHOOSE k \in hit : TRUE]

\* Rsa::generate(bits): the keys it may return; none for an unusable size.
Rsa_generate(bits) == {k \in Keys : 8 * Rsa_size(k) = bits}

(***************************************************************************)
(* base64 (URL_SAFE_NO_PAD).  Text is a sequence of alphabet positions     *)
(* 0..63; any other number stands for a character outside the alphabet.    *)
(***************************************************************************)
RECURSIVE base64_encode_config(_)
base64_encode_config(bs) ==
    IF bs = <<>> THEN <<>>
    ELSE IF Len(bs) = 1 THEN <<bs[1] \div 4, (bs[1] % 4) * 16>>
    ELSE IF Len(bs) = 2
         THEN <<bs[1] \div 4, (bs[1] % 4) * 16 + bs[2] \div 16, (bs[2] % 16) * 4>>
    ELSE <<bs[1] \div 4, (bs[1] % 4) * 16 + bs[2] \div 16,
           (bs[2] % 16) * 4 + bs[3] \div 64, bs[3] % 64>>
         \o base64_encode_config(SubSeq(bs, 4, Len(bs)))

RECURSIVE Base64Groups(_)
Base64Groups(s) ==
    IF s = <<>> THEN <<>>
    ELSE IF Len(s) = 2 THEN <<s[1] * 4 + s[2] \div 16>>
    ELSE IF Len(s) = 3 THEN <<s[1] * 4 + s[2] \div 16, (s[2] % 16) * 16 + s[3] \div 4>>
    ELSE <<s[1] * 4 + s[2] \div 16, (s[2] % 16) * 16 + s[3] \div 4, (s[3] % 4) * 64 + s[4]>>
         \o Base64Groups(SubSeq(s, 5, Len(s)))

base64_decode_config(s) ==
    LET t == Len(s) % 4
    IN IF \/ \E i \in 1..Len(s) : s[i] \notin 0..63
          \/ t = 1
          \/ t = 2 /\ s[Len(s)] % 16 # 0
          \/ t = 3 /\ s[Len(s)] % 4 # 0
       THEN [ok |-> FALSE, cause |-> "base64::DecodeError"]
       ELSE [ok |-> TRUE, val |-> Base64Groups(s)]

(***************************************************************************)
(* crate::jwk::Jwk: a key type, an optional alg and named JSON values.     *)
(* A JSON value is [t |-> "String", s |-> text] or of another type.        *)
(***************************************************************************)
JsonString(s) == [t |-> "String", s |-> s]

Jwk_new(kty) == [kty |-> kty, alg |-> None, params |-> <<>>]

Jwk_set_algorithm(jwk, val) == [jwk EXCEPT !.alg = Some(val)]

Jwk_key_type(jwk) == jwk.kty

Jwk_parameter(jwk, name) ==
    IF name \in DOMAIN jwk.params THEN Some(jwk.params[name]) ELSE None

Jwk_set_parameter(jwk, name, value) ==
    [jwk EXCEPT !.params = [x \in DOMAIN jwk.params \cup {name} |->
                               IF x = name THEN value ELSE jwk.params[x]]]

(***************************************************************************)
(* crate::util::parse_pem: the label and the decoded body of a PEM text.   *)
(***************************************************************************)
parse_pem(input) ==
    IF ~input.wellformed THEN [ok |-> FALSE, cause |-> "pem parse error"]
    ELSE [ok |-> TRUE, alg |-> input.label, data |-> input.data]

(***************************************************************************)
(* RsaKeyPair: the facade.  A key pair is                                  *)
(* [private_key |-> key, key_len |-> bytes, alg |-> Option<String>].       *)
(* A fallible body yields [ok |-> TRUE, val |-> v] or                      *)
(* [ok |-> FALSE, cause |-> message].                                      *)
(***************************************************************************)
Fail(cause) == [ok |-> FALSE, cause |-> cause]

Pass(val) == [ok |-> TRUE, val |-> val]

\* map_err letting the cause through as the error kind.
map_err_unwrapped(r) ==
    IF r.ok THEN [kind |-> "Ok", val |-> r.val]
    ELSE [kind |-> "Err", err |-> r.cause, cause |-> r.cause]

\* .map_err(|err| JoseError::InvalidKeyFormat(err))
map_err(r) ==
    IF r.ok THEN [kind |-> "Ok", val |-> r.val]
    ELSE [kind |-> "Err", err |-> "InvalidKeyFormat", cause |-> r.cause]

\* The tail shared by from_der, from_pem and from_jwk: load the key, take
\* key_len from its modulus, alg: None.
load_private_key(pkcs8) ==
    LET private_key == PKey_private_key_from_der(pkcs8)
    IN IF ~private_key.ok THEN Fail(private_key.cause)
       ELSE Pass([private_key |-> private_key.val,
                  key_len |-> Rsa_size(private_key.val),
                  alg |-> None])

\* generate(bits) with rsa the collaborator's answer (None: it failed).
generate(bits, rsa) ==
    map_err(IF ~rsa.some THEN Fail("openssl::ErrorStack")
            ELSE Pass([private_key |-> rsa.val, key_len |-> Rsa_size(rsa.val), alg |-> None]))

\* from_der wrapping whatever it is given.
from_der_pkcs8_always_wrap(input) == to_pkcs8(input, FALSE)

\* from_der: the bytes chosen for the collaborator (pkcs8_ref).
from_der_pkcs8(input) ==
    IF detect_pkcs8(input, FALSE).some THEN input ELSE to_pkcs8(input, FALSE)

from_der(input) == map_err(load_private_key(from_der_pkcs8(input)))

\* from_pem probing "RSA PRIVATE KEY" bodies too, as from_der does.
from_pem_pkcs8_probing(input) ==
    LET pem == parse_pem(input)
    IN IF ~pem.ok THEN Fail(pem.cause)
       ELSE IF pem.alg = "PRIVATE KEY"
            THEN (IF detect_pkcs8(pem.data, FALSE).some
                  THEN Pass(pem.data)
                  ELSE Fail("Invalid PEM contents."))
       ELSE IF pem.alg = "RSA PRIVATE KEY"
            THEN Pass(IF detect_pkcs8(pem.data, FALSE).some THEN pem.data
                      ELSE to_pkcs8(pem.data, FALSE))
       ELSE Fail("Inappropriate algorithm: " \o pem.alg)

\* from_pem: the bytes chosen for the collaborator, or the failure before it.
from_pem_pkcs8(input) ==
    LET pem == parse_pem(input)
    IN IF ~pem.ok THEN Fail(pem.cause)
       ELSE IF pem.alg = "PRIVATE KEY"
            THEN (IF detect_pkcs8(pem.data, FALSE).some
                  THEN Pass(pem.data)
                  ELSE Fail("Invalid PEM contents."))
       ELSE IF pem.alg = "RSA PRIVATE KEY" THEN Pass(to_pkcs8(pem.data, FALSE))
       ELSE Fail("Inappropriate algorithm: " \o pem.alg)

from_pem(input) ==
    LET pkcs8 == from_pem_pkcs8(input)
    IN map_err(IF ~pkcs8.ok THEN pkcs8 ELSE load_private_key(pkcs8.val))

\* A parameter block pasted from the block of n with its messages unchanged.
from_jwk_parameter_pasted(jwk, name) ==
    LET v == Jwk_parameter(jwk, name)
    IN IF ~v.some THEN Fail("A parameter n is required.")
       ELSE IF v.val.t # "String" THEN Fail("A parameter n must be a string.")
       ELSE base64_decode_config(v.val.s)

\* One "let x = match jwk.parameter(name)" block of from_jwk.
from_jwk_parameter(jwk, name) ==
    LET v == Jwk_parameter(jwk, name)
    IN IF ~v.some THEN Fail("A parameter " \o name \o " is required.")
       ELSE IF v.val.t # "String" THEN Fail("A parameter " \o name \o " must be a string.")
       ELSE base64_decode_config(v.val.s)

\* The eight blocks in source order from the i-th on: the first failure, or
\* the decoded values.
RECURSIVE from_jwk_parameters(_, _)
from_jwk_parameters(jwk, i) ==
    IF i > Len(JwkNames) THEN Pass(<<>>)
    ELSE LET x == from_jwk_parameter(jwk, JwkNames[i])
         IN IF ~x.ok THEN x
            ELSE LET rest == from_jwk_parameters(jwk, i + 1)
                 IN IF ~rest.ok THEN rest ELSE Pass(<<x.val>> \o rest.val)

RECURSIVE from_jwk_integers(_, _, _)
from_jwk_integers(b, vals, i) ==
    IF i > Len(vals) THEN b
    ELSE from_jwk_integers(append_integer_from_be_slice(b, vals[i], FALSE), vals, i + 1)

\* The PKCS#1 RSAPrivateKey built from the decoded parameters.
from_jwk_builder(vals) ==
    end(from_jwk_integers(append_integer_from_u8(begin(DerBuilder_new, "Sequence"), 0), vals, 1))

\* from_jwk: the bytes chosen for the collaborator, or the failure before it.
from_jwk_pkcs8(jwk) ==
    IF Jwk_key_type(jwk) # "RSA"
    THEN Fail("A parameter kty must be RSA: " \o Jwk_key_type(jwk))
    ELSE LET ps == from_jwk_parameters(jwk, 1)
         IN IF ~ps.ok THEN ps
            ELSE Pass(to_pkcs8(build(from_jwk_builder(ps.val)), FALSE))

from_jwk(jwk) ==
    LET pkcs8 == from_jwk_pkcs8(jwk)
    IN map_err(IF ~pkcs8.ok THEN pkcs8 ELSE load_private_key(pkcs8.val))

\* set_algorithm that only ever sets a label and never clears it.
set_algorithm_keep(kp, value) == IF value.some THEN [kp EXCEPT !.alg = value] ELSE kp

set_algorithm(kp, value) == [kp EXCEPT !.alg = value]

algorithm(kp) == kp.alg

key_len(kp) == kp.key_len

to_raw_private_key(kp) == Rsa_private_key_to_der(kp.private_key)

to_raw_public_key(kp) == Rsa_public_key_to_der_pkcs1(kp.private_key)

to_traditional_pem_private_key(kp) ==
    [wellformed |-> TRUE, label |-> "RSA PRIVATE KEY", data |-> Rsa_private_key_to_der(kp.private_key)]

to_traditional_pem_public_key(kp) ==
    [wellformed |-> TRUE, label |-> "RSA PUBLIC KEY", data |-> Rsa_public_key_to_der_pkcs1(kp.private_key)]

RECURSIVE to_jwk_set(_, _, _, _)
to_jwk_set(jwk, key, names, i) ==
    IF i > Len(names) THEN jwk
    ELSE to_jwk_set(Jwk_set_parameter(jwk, names[i],
                                      JsonString(base64_encode_config(key[names[i]]))),
                    key, names, i + 1)

\* to_jwk leaving the private parameters out whenever public is asked for.
to_jwk_by_public(kp, private, public) ==
    LET j0 == Jwk_new("RSA")
        j1 == IF kp.alg.some THEN Jwk_set_algorithm(j0, kp.alg.val) ELSE j0
        j2 == to_jwk_set(j1, kp.private_key, <<"n", "e">>, 1)
    IN IF private /\ ~public
       THEN to_jwk_set(j2, kp.private_key, <<"d", "p", "q", "dp", "dq", "qi">>, 1)
       ELSE j2

to_jwk(kp, private, public) ==
    LET j0 == Jwk_new("RSA")
        j1 == IF kp.alg.some THEN Jwk_set_algorithm(j0, kp.alg.val) ELSE j0
        j2 == to_jwk_set(j1, kp.private_key, <<"n", "e">>, 1)
    IN IF private
       THEN to_jwk_set(j2, kp.private_key, <<"d", "p", "q", "dp", "dq", "qi">>, 1)
       ELSE j2

\* to_der_private_key wrapping as a public key.
to_der_private_key_as_public(kp) == to_pkcs8(to_raw_private_key(kp), TRUE)

to_der_private_key(kp) == to_pkcs8(to_raw_private_key(kp), FALSE)

to_der_public_key(kp) == PKey_public_key_to_der(kp.private_key)

to_pem_private_key(kp) ==
    [wellformed |-> TRUE, label |-> "PRIVATE KEY",
     data |-> PrivateKeyInfo(Rsa_private_key_to_der(kp.private_key))]

to_pem_public_key(kp) ==
    [wellformed |-> TRUE, label |-> "PUBLIC KEY", data |-> PKey_public_key_to_der(kp.private_key)]

to_jwk_private_key(kp) == to_jwk(kp, TRUE, FALSE)

to_jwk_public_key(kp) == to_jwk(kp, FALSE, TRUE)

to_jwk_keypair(kp) == to_jwk(kp, TRUE, TRUE)

(***************************************************************************)
(* Input buffers.  A shape describes a buffer element by element: the      *)
(* outer tag, the version field, the AlgorithmIdentifier, the key element, *)
(* a trailing extra field, and an optional truncation (cut = -1: none).    *)
(***************************************************************************)
LongRaw == [i \in 1..LongRawLen |-> i % 256]

RawKeys == <<Rsa_private_key_to_der(Key(1)), Rsa_public_key_to_der_pkcs1(Key(1)), <<>>, LongRaw>>

OuterKinds == {"Sequence", "OctetString"}

VersionKinds == {"none", "zero", "one", "wide", "null"}

AlgorithmKinds == {"ok", "wrongOid", "badOid", "noNull", "extraAfterNull", "extraBeforeNull", "notSeq"}

KeyKinds == {"missing", "octet", "bit"}

ShapeVersion(s) ==
    CASE s.ver = "none" -> <<>>
      [] s.ver = "zero" -> <<2, 1, 0>>
      [] s.ver = "one" -> <<2, 1, 1>>
      [] s.ver = "wide" -> <<2, 2, 1, 0>>
      [] s.ver = "null" -> <<5, 0>>

ShapeAlgorithm(s) ==
    LET oid == Asn1(6, <<42, 134, 72, 134, 247, 13, 1, 1, 1>>)
    IN CASE s.alg = "ok" -> Asn1(48, oid \o <<5, 0>>)
         [] s.alg = "wrongOid" -> Asn1(48, Asn1(6, <<42, 134, 72, 134, 247, 13, 1, 1, 11>>) \o <<5, 0>>)
         [] s.alg = "badOid" -> Asn1(48, Asn1(6, <<42, 134>>) \o <<5, 0>>)
         [] s.alg = "noNull" -> Asn1(48, oid)
         [] s.alg = "extraAfterNull" -> Asn1(48, oid \o <<5, 0>> \o <<2, 1, 7>>)
         [] s.alg = "extraBeforeNull" -> Asn1(48, oid \o <<2, 1, 7>> \o <<5, 0>>)
         [] s.alg = "notSeq" -> Asn1(4, oid \o <<5, 0>>)

ShapeKey(s) ==
    CASE s.key = "missing" -> <<>>
      [] s.key = "octet" -> Asn1(4, s.raw)
      [] s.key = "bit" -> Asn1(3, <<0>> \o s.raw)

ShapeExtra(s) == IF s.extra THEN <<2, 1, 5>> ELSE <<>>

ShapeFull(s) ==
    Asn1(IF s.outer = "Sequence" THEN 48 ELSE 4,
         ShapeVersion(s) \o ShapeAlgorithm(s) \o ShapeKey(s) \o ShapeExtra(s))

ShapeBytes(s) == IF s.cut = -1 THEN ShapeFull(s) ELSE SubSeq(ShapeFull(s), 1, s.cut)

\* The offset just behind the Null header of a well-formed head.
ShapeHeadEnd(s) == Len(ShapeFull(s)) - Len(ShapeKey(s)) - Len(ShapeExtra(s))

Shapes(raws) ==
    [outer : OuterKinds, ver : VersionKinds, alg : AlgorithmKinds, key : KeyKinds,
     extra : BOOLEAN, raw : raws, cut : {-1}]

\* Every proper prefix of the canonical private and public envelopes.
TruncatedShapes ==
    {[outer |-> "Sequence", ver |-> v, alg |-> "ok", key |-> k, extra |-> FALSE,
      raw |-> RawKeys[1], cut |-> c] :
        v \in {"none", "zero"}, k \in {"octet", "bit"}, c \in 0..36}

Pkcs8Args ==
    {[shape |-> s, input |-> ShapeBytes(s), is_public |-> p] :
        s \in Shapes({RawKeys[i] : i \in 1..Len(RawKeys)}) \cup TruncatedShapes, p \in BOOLEAN}

DerInputs ==
    {ShapeBytes(s) : s \in Shapes({Rsa_private_key_to_der(k) : k \in Keys})}
    \cup {Rsa_private_key_to_der(k) : k \in Keys} \cup {<<>>}

PemLabels == {"PRIVATE KEY", "RSA PRIVATE KEY", "EC PRIVATE KEY", "PUBLIC KEY"}

PemInputs ==
    [wellformed : {TRUE}, label : PemLabels, data : DerInputs]
    \cup {[wellformed |-> FALSE, label |-> "", data |-> <<>>]}

\* A JWK of key k with parameter a changed in way ka and b in way kb.
JwkDefects == {"ok", "absent", "number", "badBase64", "zeroPadded"}

JwkInput(kty, k, a, ka, b, kb) ==
    LET how(x) == IF x = b THEN kb ELSE IF x = a THEN ka ELSE "ok"
        names == {JwkNames[i] : i \in 1..Len(JwkNames)}
    IN [kty |-> kty, alg |-> None,
        params |-> [x \in {y \in names : how(y) # "absent"} |->
                       CASE how(x) = "ok" -> JsonString(base64_encode_config(k[x]))
                         [] how(x) = "number" -> [t |-> "Number", s |-> <<>>]
                         [] how(x) = "badBase64" -> JsonString(base64_encode_config(k[x]) \o <<64>>)
                         [] how(x) = "zeroPadded" -> JsonString(base64_encode_config(<<0>> \o k[x]))]]

JwkInputs ==
    {JwkInput(kty, k, JwkNames[i], ka, JwkNames[j], kb) :
        kty \in {"RSA", "EC"}, k \in Keys, i \in 1..Len(JwkNames), j \in 1..Len(JwkNames),
        ka \in JwkDefects, kb \in JwkDefects}

GenerateBits == {0, 8, 16, 24}

Algorithms == {None, Some("RS256"), Some("PS256")}

(***************************************************************************)
(* The state machine.  self is the key pair the caller holds (None before  *)
(* a constructor succeeded), op/arg/ret the last call, its argument and    *)
(* its return value, handed the bytes the call gave to                     *)
(* PKey::private_key_from_der (None when it did not get there).            *)
(***************************************************************************)
Unit == [kind |-> "Unit"]

Init ==
    /\ self = None
    /\ op = "init"
    /\ arg = None
    /\ ret = Unit
    /\ handed = None

\* A constructor call: the first success gives the caller its key pair; a
\* later call (on bytes, PEM or JWK the key pair emitted) only returns.
Construct(o, a, r, h) ==
    /\ op' = o
    /\ arg' = a
    /\ ret' = r
    /\ handed' = h
    /\ self' = IF ~self.some /\ r.kind = "Ok" THEN Some(r.val) ELSE self

ConstructArgs(fresh, kind) ==
    IF ~self.some THEN (IF op = "init" THEN fresh ELSE {})
    ELSE IF ret.kind = kind THEN {ret.val} ELSE {}

\* A method call on the key pair; s is the key pair afterwards.
Method(o, a, r, s) ==
    /\ self.some
    /\ op' = o
    /\ arg' = a
    /\ ret' = r
    /\ handed' = None
    /\ self' = Some(s)

Generate ==
    /\ ~self.some /\ op = "init"
    /\ \E bits \in GenerateBits :
        \E rsa \in IF Rsa_generate(bits) = {} THEN {None} ELSE {Some(k) : k \in Rsa_generate(bits)} :
            Construct("generate", bits, generate(bits, rsa), None)

FromDer ==
    \E input \in ConstructArgs(DerInputs, "Bytes") :
        Construct("from_der", input, from_der(input), Some(from_der_pkcs8(input)))

FromPem ==
    \E input \in ConstructArgs(PemInputs, "Pem") :
        LET pkcs8 == from_pem_pkcs8(input)
        IN Construct("from_pem", input, from_pem(input),
                     IF pkcs8.ok THEN Some(pkcs8.val) ELSE None)

FromJwk ==
    \E jwk \in ConstructArgs(JwkInputs, "Jwk") :
        LET pkcs8 == from_jwk_pkcs8(jwk)
        IN Construct("from_jwk", jwk, from_jwk(jwk),
                     IF pkcs8.ok THEN Some(pkcs8.val) ELSE None)

SetAlgorithm ==
    \E value \in Algorithms :
        Method("set_algorithm", value, Unit, set_algorithm(self.val, value))

Algorithm == Method("algorithm", None, [kind |-> "Alg", val |-> algorithm(self.val)], self.val)

KeyLen == Method("key_len", None, [kind |-> "U32", val |-> key_len(self.val)], self.val)

ToRawPrivateKey ==
    Method("to_raw_private_key", None, [kind |-> "Bytes", val |-> to_raw_private_key(self.val)], self.val)

ToRawPublicKey ==
    Method("to_raw_public_key", None, [kind |-> "Bytes", val |-> to_raw_public_key(self.val)], self.val)

ToTraditionalPemPrivateKey ==
    Method("to_traditional_pem_private_key", None,
           [kind |-> "Pem", val |-> to_traditional_pem_private_key(self.val)], self.val)

ToTraditionalPemPublicKey ==
    Method("to_traditional_pem_public_key", None,
           [kind |-> "Pem", val |-> to_traditional_pem_public_key(self.val)], self.val)

ToDerPrivateKey ==
    Method("to_der_private_key", None, [kind |-> "Bytes", val |-> to_der_private_key(self.val)], self.val)

ToDerPublicKey ==
    Method("to_der_public_key", None, [kind |-> "Bytes", val |-> to_der_public_key(self.val)], self.val)

ToPemPrivateKey ==
    Method("to_pem_private_key", None, [kind |-> "Pem", val |-> to_pem_private_key(self.val)], self.val)

ToPemPublicKey ==
    Method("to_pem_public_key", None, [kind |-> "Pem", val |-> to_pem_public_key(self.val)], self.val)

ToJwkPrivateKey ==
    Method("to_jwk_private_key", None, [kind |-> "Jwk", val |-> to_jwk_private_key(self.val)], self.val)

ToJwkPublicKey ==
    Method("to_jwk_public_key", None, [kind |-> "Jwk", val |-> to_jwk_public_key(self.val)], self.val)

ToJwkKeypair ==
    Method("to_jwk_keypair", None, [kind |-> "Jwk", val |-> to_jwk_keypair(self.val)], self.val)

Next ==
    \/ Generate
    \/ FromDer
    \/ FromPem
    \/ FromJwk
    \/ SetAlgorithm
    \/ Algorithm
    \/ KeyLen
    \/ ToRawPrivateKey
    \/ ToRawPublicKey
    \/ ToTraditionalPemPrivateKey
    \/ ToTraditionalPemPublicKey
    \/ ToDerPrivateKey
    \/ ToDerPublicKey
    \/ ToPemPrivateKey
    \/ ToPemPublicKey
    \/ ToJwkPrivateKey
    \/ ToJwkPublicKey
    \/ ToJwkKeypair

Spec == Init /\ [][Next]_vars

(***************************************************************************)
(* The PKCS#8 adapter on its own: detect_pkcs8 and to_pkcs8 applied to     *)
(* every shaped buffer, in both modes.                                     *)
(***************************************************************************)
InitPkcs8 ==
    /\ self = None
    /\ op = "init"
    /\ arg \in Pkcs8Args
    /\ ret = Unit
    /\ handed = None

DetectPkcs8 ==
    /\ op = "init"
    /\ op' = "detect_pkcs8"
    /\ ret' = [kind |-> "Option", val |-> detect_pkcs8(arg.input, arg.is_public)]
    /\ UNCHANGED <<self, arg, handed>>

ToPkcs8 ==
    /\ op = "init"
    /\ op' = "to_pkcs8"
    /\ ret' = [kind |-> "Bytes", val |-> to_pkcs8(arg.input, arg.is_public),
               open |-> Len(to_pkcs8_builder(arg.input, arg.is_public).stack)]
    /\ UNCHANGED <<self, arg, handed>>

NextPkcs8 ==
    \/ DetectPkcs8
    \/ ToPkcs8

SpecPkcs8 == InitPkcs8 /\ [][NextPkcs8]_vars

(***************************************************************************)
(* Properties of detect_pkcs8 and to_pkcs8 (under SpecPkcs8).              *)
(***************************************************************************)
\* The head detect_pkcs8 reads is well formed: outer Sequence, the version
\* 0 exactly in private mode, rsaEncryption and Null, none of it cut off.
HeadOk(a) ==
    /\ a.shape.outer = "Sequence"
    /\ a.shape.ver = (IF a.is_public THEN "none" ELSE "zero")
    /\ a.shape.alg \in {"ok", "extraAfterNull"}
    /\ a.shape.cut = -1 \/ a.shape.cut >= ShapeHeadEnd(a.shape)

\* The buffer is exactly Sequence { [0], Sequence { OID, Null }, key }.
ExactEnvelope(a) ==
    /\ HeadOk(a)
    /\ a.shape.alg = "ok"
    /\ a.shape.key # "missing"
    /\ ~a.shape.extra
    /\ a.shape.cut = -1

\* C1 as stated: detect_pkcs8 matches only a buffer that decodes as exactly
\* Sequence { [Integer 0 when !is_public], Sequence { rsaEncryption, Null },
\* key bytes }, so a missing key element, an extra top-level field or an
\* additional AlgorithmIdentifier element yields no-match.
C1_MatchOnlyExact == op = "detect_pkcs8" /\ ret.val.some => ExactEnvelope(arg)

\* C1 amended: detect_pkcs8 matches if and only if the buffer starts with a
\* Sequence header, the Integer 0 (private mode only), a Sequence header,
\* the rsaEncryption OID and a Null header; what follows the Null is never
\* read.
C1_MatchIffHead == op = "detect_pkcs8" => (ret.val.some <=> HeadOk(arg))

C1_Witness ==
    /\ op = "detect_pkcs8"
    /\ ret.val.some
    /\ arg.shape.key = "missing"
    /\ ~arg.is_public

\* A buffer C2 names: outer Sequence, and a version that is not 0 or is too
\* wide (private mode), another OID, a malformed OID, no Null behind the
\* OID, or a head that is cut off.
Deviates(a) ==
    /\ a.shape.outer = "Sequence"
    /\ \/ ~a.is_public /\ a.shape.ver \in {"one", "wide"}
       \/ a.shape.alg \in {"wrongOid", "badOid", "noNull"}
       \/ a.shape.cut # -1 /\ a.shape.cut < ShapeHeadEnd(a.shape)

\* C2: detect_pkcs8 always returns Some or None, and returns None for every
\* buffer with a wrong or too wide version, a wrong OID, a missing Null or a
\* reader error at any step.
C2_DeviationIsNoMatch ==
    op = "detect_pkcs8" =>
        /\ ret.val \in {None, Some("unit")}
        /\ Deviates(arg) => ret.val = None

C2_Witness ==
    /\ op = "detect_pkcs8"
    /\ ~arg.is_public
    /\ arg.shape.outer = "Sequence"
    /\ arg.shape.alg = "wrongOid"
    /\ arg.shape.ver = "zero"
    /\ ret.val = None

\* C3: to_pkcs8 emits one outer Sequence holding Integer 0 (private only),
\* Sequence { rsaEncryption, Null } and the input as OctetString (private)
\* or BitString with 0 unused bits (public), with no element left open at
\* build().
C3_Envelope ==
    op = "to_pkcs8" =>
        /\ ret.open = 0
        /\ ret.val = (IF arg.is_public THEN SubjectPublicKeyInfo(arg.input)
                      ELSE PrivateKeyInfo(arg.input))

C3_Witness ==
    /\ op = "to_pkcs8"
    /\ arg.is_public
    /\ Len(arg.input) > 127
    /\ ret.val[2] = 129

(***************************************************************************)
(* Properties of the facade (under Spec).                                  *)
(***************************************************************************)
Constructors == {"generate", "from_der", "from_pem", "from_jwk"}

\* C4: from_der hands the collaborator the input itself when detect_pkcs8
\* matches it and the PKCS#8 envelope of the input otherwise; what it hands
\* over is always matched by detect_pkcs8.
C4_FromDerHands ==
    op = "from_der" =>
        /\ handed.some
        /\ detect_pkcs8(handed.val, FALSE).some
        /\ handed.val = (IF detect_pkcs8(arg, FALSE).some THEN arg ELSE PrivateKeyInfo(arg))

C4_Witness ==
    /\ op = "from_der"
    /\ detect_pkcs8(arg, FALSE).some
    /\ handed = Some(arg)
    /\ ret.kind = "Ok"

\* C5: from_pem dispatches on the label: "PRIVATE KEY" passes the body on
\* unchanged if detect_pkcs8 matches it and fails with "Invalid PEM
\* contents." otherwise; "RSA PRIVATE KEY" always passes on the wrapped
\* body; any other label fails with "Inappropriate algorithm: <label>"
\* before the collaborator is called.
C5_FromPemDispatch ==
    op = "from_pem" /\ arg.wellformed =>
        IF arg.label = "PRIVATE KEY"
        THEN IF detect_pkcs8(arg.data, FALSE).some
             THEN handed = Some(arg.data)
             ELSE handed = None /\ ret.kind = "Err" /\ ret.cause = "Invalid PEM contents."
        ELSE IF arg.label = "RSA PRIVATE KEY"
             THEN handed = Some(PrivateKeyInfo(arg.data))
        ELSE /\ handed = None
             /\ ret.kind = "Err"
             /\ ret.err = "InvalidKeyFormat"
             /\ ret.cause = "Inappropriate algorithm: " \o arg.label

C5_Witness ==
    /\ op = "from_pem"
    /\ arg.label = "EC PRIVATE KEY"
    /\ ret.kind = "Err"
    /\ ret.cause = "Inappropriate algorithm: EC PRIVATE KEY"

\* What is wrong with parameter x of a JWK, if anything.
JwkParameterState(jwk, x) ==
    IF x \notin DOMAIN jwk.params THEN "absent"
    ELSE IF jwk.params[x].t # "String" THEN "nonString"
    ELSE IF ~base64_decode_config(jwk.params[x].s).ok THEN "undecodable"
    ELSE "ok"

\* C6: from_jwk succeeds only for kty "RSA" with all eight parameters
\* strings; another kty fails naming RSA; an absent or non-string parameter
\* fails, and the message names the first such parameter (in the order
\* n, e, d, p, q, dp, dq, qi) as required or as not a string; none of these
\* failures reaches the collaborator.
C6_FromJwkChecks ==
    op = "from_jwk" =>
        LET state(i) == JwkParameterState(arg, JwkNames[i])
            first(i) == \A j \in 1..(i - 1) : state(j) = "ok"
        IN /\ ret.kind = "Ok" =>
                arg.kty = "RSA" /\ \A i \in 1..Len(JwkNames) : state(i) = "ok"
           /\ arg.kty # "RSA" =>
                /\ ret.kind = "Err"
                /\ ret.cause = "A parameter kty must be RSA: " \o arg.kty
                /\ handed = None
           /\ arg.kty = "RSA" =>
                \A i \in 1..Len(JwkNames) :
                    /\ state(i) \in {"absent", "nonString"} =>
                            ret.kind = "Err" /\ handed = None
                    /\ state(i) = "absent" /\ first(i) =>
                            ret.cause = "A parameter " \o JwkNames[i] \o " is required."
                    /\ state(i) = "nonString" /\ first(i) =>
                            ret.cause = "A parameter " \o JwkNames[i] \o " must be a string."

C6_Witness ==
    /\ op = "from_jwk"
    /\ arg.kty = "RSA"
    /\ "qi" \notin DOMAIN arg.params
    /\ ret.kind = "Err"
    /\ ret.cause = "A parameter qi is required."

\* C7: to_der_private_key returns bytes detect_pkcs8 matches, and from_der
\* of these bytes hands them on as they are and returns a key pair with the
\* modulus, public exponent and key_len of the original.
C7_DerRoundTrip ==
    /\ op = "to_der_private_key" => detect_pkcs8(ret.val, FALSE).some
    /\ op = "from_der" /\ self.some =>
        (arg = to_der_private_key(self.val) =>
            /\ detect_pkcs8(arg, FALSE).some
            /\ handed = Some(arg)
            /\ ret.kind = "Ok"
            /\ ret.val.private_key.n = self.val.private_key.n
            /\ ret.val.private_key.e = self.val.private_key.e
            /\ ret.val.key_len = self.val.key_len)

C7_Witness ==
    /\ op = "from_der"
    /\ self.some
    /\ self.val.alg.some
    /\ arg = to_der_private_key(self.val)
    /\ ret.kind = "Ok"

\* C8: every emitted JWK has kty "RSA" and n and e; it has d exactly when
\* it has all of p, q, dp, dq, qi; to_jwk_public_key emits n and e only,
\* the other two entry points all eight; each parameter is the base64url
\* text of the key's component; the public flag changes nothing.
C8_JwkFields ==
    ret.kind = "Jwk" =>
        LET jwk == ret.val
            has == DOMAIN jwk.params
            crt == {"p", "q", "dp", "dq", "qi"}
        IN /\ jwk.kty = "RSA"
           /\ {"n", "e"} \subseteq has
           /\ "d" \in has <=> crt \subseteq has
           /\ op = "to_jwk_public_key" => has = {"n", "e"}
           /\ op \in {"to_jwk_private_key", "to_jwk_keypair"} => has = {"n", "e", "d"} \cup crt
           /\ \A x \in has :
                /\ jwk.params[x].t = "String"
                /\ base64_decode_config(jwk.params[x].s) = Pass(self.val.private_key[x])
           /\ \A public \in BOOLEAN : to_jwk(self.val, "d" \in has, public) = jwk

C8_Witness ==
    /\ op = "to_jwk_keypair"
    /\ ret.kind = "Jwk"
    /\ "qi" \in DOMAIN ret.val.params

C9_Outcome ==
    op \in Constructors =>
        \/ /\ ret.kind = "Ok"
           /\ DOMAIN ret = {"kind", "val"}
           /\ DOMAIN ret.val = {"private_key", "key_len", "alg"}
           /\ ret.val.private_key \in Keys
           /\ ret.val.key_len = Len(ret.val.private_key.n)
           /\ ret.val.alg = None
        \/ /\ ret.kind = "Err"
           /\ DOMAIN ret = {"kind", "err", "cause"}
           /\ ret.err = "InvalidKeyFormat"

C9_Step == op' \in Constructors /\ ret'.kind = "Err" => self' = self

\* C9: generate, from_der, from_pem and from_jwk end either with a complete
\* key pair (a key of the collaborator, key_len its modulus length, alg
\* None) or with InvalidKeyFormat around the cause, and a failed call leaves
\* the caller no key pair.
C9_TwoOutcomes == []C9_Outcome /\ [][C9_Step]_vars

C9_Witness ==
    /\ op = "from_pem"
    /\ ret.kind = "Err"
    /\ ret.cause = "Invalid PEM contents."
    /\ ~self.some

C10_Reflects ==
    /\ op = "algorithm" => ret.val = self.val.alg
    /\ ret.kind = "Jwk" => ret.val.alg = self.val.alg

C10_Step ==
    /\ self.some =>
        /\ self'.some
        /\ self'.val.private_key = self.val.private_key
        /\ self'.val.key_len = self.val.key_len
        /\ op' # "set_algorithm" => self'.val.alg = self.val.alg
    /\ ~self.some /\ self'.some => self'.val.alg = None
    /\ op' = "set_algorithm" => self'.val.alg = arg'

\* C10: once constructed, no call changes the key handle or key_len; only
\* set_algorithm changes the label, to the value given; the label is None
\* after construction; algorithm() and the alg of emitted JWKs are the
\* current label.
C10_Frame == []C10_Reflects /\ [][C10_Step]_vars

C10_Witness ==
    /\ op = "to_jwk_keypair"
    /\ ret.kind = "Jwk"
    /\ ret.val.alg = Some("PS256")

====
